---- MODULE Spec2Model ----
(***************************************************************************)
(* Isometric walker: one actor on an isometric tile grid, followed by a    *)
(* camera with a deadzone.  The repository holds three variants of the     *)
(* same page script:                                                       *)
(*   "free"  src/assets/script.js   1..213   continuous motion             *)
(*   "held"  src/assets/script.js 214..492   grid steps, held keys         *)
(*   "tap"   src/unnamed/part_000            grid steps, queue of taps     *)
(*                                                                         *)
(* Numbers.  The scripts compute in doubles; the model computes exactly,   *)
(* in fixed point:                                                         *)
(*   time      1/TU second          (TU = 280: 0.05 s = 14, 1/7 s = 40,    *)
(*                                   1/8 s = 35)                           *)
(*   progress  1/TU                 (player.t = 1 is TU)                   *)
(*   tiles     1/PosScale tile                                             *)
(*   pixels    1/PxScale pixel                                             *)
(* A coordinate is a pair <<a, b>> standing for a + b*sqrt(2): the free    *)
(* variant divides by hypot(1,1), so its positions are not rational.  The  *)
(* grid variants keep b = 0.  The sine ease of the tap variant is a table  *)
(* rounded to 1/PosScale tile.                                             *)
(***************************************************************************)
EXTENDS Integers, Sequences, FiniteSets, TLC

(* ---------------- bounds of the model ---------------- *)
MaxTaps  == 3   \* tap: non-repeat arrow keydowns in a run
MaxSteps == 2   \* held: steps started in a run
MaxStalls == 1  \* frames in a run whose elapsed time is not the time the
                \*   actor advances by
MaxFramesTap == 15  \* tap: the latest timestamp, in regular frames
MaxFramesHeld == 12 \* held: the latest timestamp, in regular frames
MaxFramesFree == 6  \* free: the latest timestamp, in regular frames
MaxMoves == 2   \* free motion alone: the latest timestamp, in regular frames
MaxHeld  == 1   \* held: keys held at the same time
MaxHeldFree == 1 \* free: keys held at the same time
MaxAcross == 6  \* free: net frames of travel to screen left or right
MaxAlong == 1   \* free: net frames of travel to screen top or bottom
MaxAxial == 1   \* free: net frames of travel with two keys held
MaxBack  == 1   \* grid variants: negative progress, in regular frames
MaxTile  == 5   \* projection: tiles -MaxTile..MaxTile on both axes
MaxCam   == 7   \* drawGrid: camera offsets, in steps of 1/7 tile
MaxSeen  == 16  \* drawGrid: tiles -MaxSeen..MaxSeen examined on both axes

(* ---------------- units ---------------- *)
TU       == 7 * 8 * 5
PosScale == TU
PxScale  == 5 * 7

(* ---------------- program constants ---------------- *)
TILE_W == 128
TILE_H == 64
HALF_W == TILE_W \div 2
HALF_H == TILE_H \div 2

Variants == {"free", "held", "tap"}

\* player.speed, tiles per second
Speed(v) == CASE v = "free" -> 4 [] v = "held" -> 7 [] v = "tap" -> 8

\* the 0.05 of Math.min(0.05, ...), in time units
DtCap == (5 * TU) \div 100

\* the array ['ArrowUp', 'ArrowDown', 'ArrowLeft', 'ArrowRight']
Arrows == <<"ArrowUp", "ArrowDown", "ArrowLeft", "ArrowRight">>
ArrowSet == {Arrows[n] : n \in 1..4}

\* key identifiers the environment can deliver
KeyNames == ArrowSet \cup {"ArrowFoo", "a"}

\* e.key.startsWith('Arrow')
StartsWithArrow(k) == k \in ArrowSet \cup {"ArrowFoo"}

Null == "null"

(* ---------------- inputs ---------------- *)
\* a regular frame of each variant, in time units
Frame(v) == CASE v = "free" -> 14 [] v = "held" -> 8 [] v = "tap" -> 7

\* a stalled tab: more than the cap
Stall(v) == 3 * Frame(v)

\* now - last of two successive frame timestamps
Elapsed(v) == {0 - Frame(v), 0, Frame(v), Stall(v)}

\* the timestamps of a run, relative to the timestamp that init() reads
MaxFrames(v) ==
  CASE v = "free" -> MaxFramesFree
    [] v = "held" -> MaxFramesHeld
    [] v = "tap"  -> MaxFramesTap
Clock(v) == (0 - MaxBack * Frame(v))..(MaxFrames(v) * Frame(v))

\* 1 for a frame whose elapsed time el is not the time the actor advances
\* by: a frame longer than the cap, or one that finds nothing in progress
Irregular(el, used) == IF el # used THEN 1 ELSE 0

\* the number of such frames in a run
MaxIrregular(v) == MaxStalls

\* viewport sizes (w, h) in pixels
Views == {<<500, 750>>, <<1500, 500>>}

VARIABLES
  variant,    \* which script runs
  player,     \* the player object
  cam,        \* the cam object
  keys,       \* the keys Set (free, held)
  lastKey,    \* lastKey (held)
  tapQueue,   \* tapQueue (tap)
  view,       \* <<canvas.clientWidth, canvas.clientHeight>>
  last,       \* the frame clock: the timestamp of the previous frame, in
              \*   time units since init() read the clock
  taps,       \* history: deltas of the non-repeat arrow keydowns (tap)
  steps,      \* history: [from, to] of the steps started (tap)
  nsteps,     \* history: the number of steps started (held)
  stalls,     \* history: the number of frames whose elapsed time was not
              \*   the time the actor advanced by
  recent,     \* history: the most recently pressed arrow key if still held (held)
  buf,        \* history: arrow key pressed during a step that has ended, or
              \*   is ending, with no key held (held)
  first,      \* history: the first step of the run and the dt sums around it
  probe,      \* projection: <<>>, or a tile with its image and the image's tile
  drawn       \* <<>>, or what the latest render() drew: the tile range of
              \*   drawGrid and the tiles stroked

vars == <<variant, player, cam, keys, lastKey, tapQueue, view, last,
          taps, steps, nsteps, stalls, recent, buf, first, probe, drawn>>

(* ---------------- arithmetic on a + b*sqrt(2) ---------------- *)
Z(a) == <<a, 0>>
Plus(x, y) == <<x[1] + y[1], x[2] + y[2]>>
Minus(x, y) == <<x[1] - y[1], x[2] - y[2]>>
Sgn(a) == IF a > 0 THEN 1 ELSE IF a < 0 THEN 0 - 1 ELSE 0
Min(a, b) == IF a < b THEN a ELSE b
Max(a, b) == IF a > b THEN a ELSE b
Abs(a) == IF a < 0 THEN 0 - a ELSE a
\* sign of x[1] + x[2]*sqrt(2)
Sign2(x) ==
  LET a == x[1]
      b == x[2]
  IN  IF b = 0 THEN Sgn(a)
      ELSE IF a = 0 THEN Sgn(b)
      ELSE IF Sgn(a) = Sgn(b) THEN Sgn(a)
      ELSE IF Abs(a) >= 2 * Abs(b) THEN Sgn(a)
      ELSE IF a * a > 2 * b * b THEN Sgn(a) ELSE Sgn(b)
Less(x, y) == Sign2(Minus(x, y)) < 0

(* ---------------- projection ---------------- *)
\* x: (i - j) * HALF_W, y: (i + j) * HALF_H, for tile coordinates given in
\* 1/scale tile
isoAt(i, j, scale) ==
  [x |-> <<((i[1] - j[1]) * HALF_W * PxScale) \div scale,
           ((i[2] - j[2]) * HALF_W * PxScale) \div scale>>,
   y |-> <<((i[1] + j[1]) * HALF_H * PxScale) \div scale,
           ((i[2] + j[2]) * HALF_H * PxScale) \div scale>>]

\* iso(i, j): tile coordinates (in 1/PosScale tile) to pixels
iso(i, j) == isoAt(i, j, PosScale)

\* the tile coordinates that isoToTile returns are in 1/TileScale tile: a
\* pixel coordinate of 1/PxScale pixel divided by HALF_W and by 2 is a
\* multiple of 1/(2 * HALF_W * PxScale) tile, so no result is rounded
TileScale == 2 * HALF_W * PxScale

\* mutant: the two differences exchanged
isoToTileSwapped(x, y) ==
  [i |-> <<2 * y[1] - x[1], 2 * y[2] - x[2]>>,
   j |-> <<2 * y[1] + x[1], 2 * y[2] + x[2]>>]

\* isoToTile(x, y): pixels to (fractional) tile coordinates
\*   i = (y / HALF_H + x / HALF_W) / 2, j = (y / HALF_H - x / HALF_W) / 2
\* with x, y in 1/PxScale pixel and i, j in 1/TileScale tile this is
\* 2y + x and 2y - x (HALF_W = 2 * HALF_H)
isoToTile(x, y) ==
  [i |-> <<2 * y[1] + x[1], 2 * y[2] + x[2]>>,
   j |-> <<2 * y[1] - x[1], 2 * y[2] - x[2]>>]

(* ---------------- easing (tap) ---------------- *)
\* 0.5 - 0.5 * Math.cos(Math.PI * t) at t = k/35, rounded to 1/PosScale
EaseTable ==
  <<0, 1, 2, 5, 9, 14, 20, 27, 35, 43, 53, 63, 74, 85, 97, 109, 121, 134,
    146, 159, 171, 183, 195, 206, 217, 227, 237, 245, 253, 260, 266, 271,
    275, 278, 279, 280>>
\* easeInOutSine(t); the cosine is even, so ease(-t) = ease(t)
easeInOutSine(t) == EaseTable[(Abs(t) \div 8) + 1]
\* lerp(a, b, t) with a, b whole tiles and t in 1/PosScale
lerp(a, b, t) == a * PosScale + (b - a) * t

(* ---------------- camera (the same code in the three scripts) ------------ *)
\* dzw = Math.min(380, Math.max(200, w * 0.32)), w in 1/PxScale pixel
DeadzoneW(w) == Min(380 * PxScale, Max(200 * PxScale, (w * 32) \div 100))
\* dzh = Math.min(260, Math.max(160, h * 0.28))
DeadzoneH(h) == Min(260 * PxScale, Max(160 * PxScale, (h * 28) \div 100))

\* the deadzone rectangle of a viewport
Deadzone(v) ==
  LET w == v[1] * PxScale
      h == v[2] * PxScale
      dzw == DeadzoneW(w)
      dzh == DeadzoneH(h)
  IN  [w2 |-> w \div 2, h2 |-> h \div 2,
       dzLeft   |-> w \div 2 - dzw \div 2,
       dzRight  |-> w \div 2 + dzw \div 2,
       dzTop    |-> h \div 2 - dzh \div 2,
       dzBottom |-> h \div 2 + dzh \div 2]

\* onScreenX = p.x - cam.x + w / 2 (and the same for y)
OnScreen(pc, camc, half) == Plus(Minus(pc, camc), Z(half))

\* mutant: the first branch snaps to the far boundary
CamAxisSwapped(on, lo, hi, pc, half, camc) ==
  IF Less(on, Z(lo)) THEN Plus(pc, Z(half - hi))
  ELSE IF Less(Z(hi), on) THEN Plus(pc, Z(half - hi))
  ELSE camc

\* mutant: no deadzone, the camera is always centred on the actor
CamAxisCentred(on, lo, hi, pc, half, camc) == pc

\* one axis of the deadzone follow:
\*   if (on < lo) cam = p + half - lo; else if (on > hi) cam = p + half - hi;
CamAxis(on, lo, hi, pc, half, camc) ==
  IF Less(on, Z(lo)) THEN Plus(pc, Z(half - lo))
  ELSE IF Less(Z(hi), on) THEN Plus(pc, Z(half - hi))
  ELSE camc

\* mutant: the camera follows across only
CameraXOnly(p, c, v) ==
  LET dz == Deadzone(v)
      pt == iso(p.i, p.j)
      onScreenX == OnScreen(pt.x, c.x, dz.w2)
  IN  [x |-> CamAxis(onScreenX, dz.dzLeft, dz.dzRight, pt.x, dz.w2, c.x),
       y |-> c.y]

\* the camera part of update
Camera(p, c, v) ==
  LET dz == Deadzone(v)
      pt == iso(p.i, p.j)
      onScreenX == OnScreen(pt.x, c.x, dz.w2)
      onScreenY == OnScreen(pt.y, c.y, dz.h2)
  IN  [x |-> CamAxis(onScreenX, dz.dzLeft, dz.dzRight, pt.x, dz.w2, c.x),
       y |-> CamAxis(onScreenY, dz.dzTop, dz.dzBottom, pt.y, dz.h2, c.y)]

(* ---------------- drawGrid ---------------- *)
\* Lengths are in 1/PxScale pixel, the tile coordinates of the corners in
\* 1/TileScale tile.

\* the whole part of b * sqrt(2), for b >= 0
Root2(b) ==
  CHOOSE s \in ((b * 1414) \div 1000)..((b * 1415) \div 1000 + 1) :
    s * s <= 2 * b * b /\ 2 * b * b < (s + 1) * (s + 1)

\* the greatest whole number that is at most x[1] + x[2]*sqrt(2), and the
\* least one that is at least that
Whole(x) ==
  IF x[2] = 0 THEN x[1]
  ELSE IF x[2] > 0 THEN x[1] + Root2(x[2])
  ELSE x[1] - Root2(0 - x[2]) - 1
WholeUp(x) == IF x[2] = 0 THEN x[1] ELSE Whole(x) + 1

\* Math.floor and Math.ceil of a tile coordinate, in tiles
floor(x) == Whole(x) \div TileScale
ceil(x) == 0 - ((0 - WholeUp(x)) \div TileScale)

\* const margin = Math.max(TILE_W, TILE_H) * 2
margin == Max(TILE_W, TILE_H) * 2 * PxScale

\* the four corners of the viewport, widened by margin, in world pixels
corners(c, v) ==
  LET w2 == (v[1] * PxScale) \div 2
      h2 == (v[2] * PxScale) \div 2
      x1 == Plus(c.x, Z(0 - w2 - margin))
      x2 == Plus(c.x, Z(w2 + margin))
      y1 == Plus(c.y, Z(0 - h2 - margin))
      y2 == Plus(c.y, Z(h2 + margin))
  IN  <<[x |-> x1, y |-> y1], [x |-> x2, y |-> y1],
        [x |-> x2, y |-> y2], [x |-> x1, y |-> y2]>>

\* Math.min and Math.max of two numbers a + b*sqrt(2)
SetMin(a, b) == IF Less(b, a) THEN b ELSE a
SetMax(a, b) == IF Less(a, b) THEN b ELSE a

\* iMin, iMax, jMin, jMax: floor - 1 and ceil + 1 of the least and the
\* greatest tile coordinate of the corners
tileRange(c, v) ==
  LET cs == corners(c, v)
      t1 == isoToTile(cs[1].x, cs[1].y)
      t2 == isoToTile(cs[2].x, cs[2].y)
      t3 == isoToTile(cs[3].x, cs[3].y)
      t4 == isoToTile(cs[4].x, cs[4].y)
  IN  [iMin |-> floor(SetMin(SetMin(SetMin(t1.i, t2.i), t3.i), t4.i)) - 1,
       iMax |-> ceil(SetMax(SetMax(SetMax(t1.i, t2.i), t3.i), t4.i)) + 1,
       jMin |-> floor(SetMin(SetMin(SetMin(t1.j, t2.j), t3.j), t4.j)) - 1,
       jMax |-> ceil(SetMax(SetMax(SetMax(t1.j, t2.j), t3.j), t4.j)) + 1]

\* cx, cy: the centre of tile (i, j) on the screen
onScreenTile(i, j, c, v) ==
  LET p == iso(Z(i * PosScale), Z(j * PosScale))
  IN  <<OnScreen(p.x, c.x, (v[1] * PxScale) \div 2),
        OnScreen(p.y, c.y, (v[2] * PxScale) \div 2)>>

\* mutant: the reject on the left tests the wrong side of the slack
rejectedNear(cx, cy, v) ==
  \/ Less(Plus(cx, Z(HALF_W * PxScale)), Z(TILE_W * PxScale))
  \/ Less(Z(v[1] * PxScale + TILE_W * PxScale), Minus(cx, Z(HALF_W * PxScale)))
  \/ Less(Plus(cy, Z(HALF_H * PxScale)), Z(0 - TILE_H * PxScale))
  \/ Less(Z(v[2] * PxScale + TILE_H * PxScale), Minus(cy, Z(HALF_H * PxScale)))

\* if (rightX < -TILE_W || leftX > w + TILE_W ||
\*     bottomY < -TILE_H || topY > h + TILE_H) continue;
rejected(cx, cy, v) ==
  \/ Less(Plus(cx, Z(HALF_W * PxScale)), Z(0 - TILE_W * PxScale))
  \/ Less(Z(v[1] * PxScale + TILE_W * PxScale), Minus(cx, Z(HALF_W * PxScale)))
  \/ Less(Plus(cy, Z(HALF_H * PxScale)), Z(0 - TILE_H * PxScale))
  \/ Less(Z(v[2] * PxScale + TILE_H * PxScale), Minus(cy, Z(HALF_H * PxScale)))

\* drawGrid() with the camera at c and a canvas of size v: the canvas is
\* cleared and the loop over the iteration range strokes the tiles that are
\* not rejected.  What has been drawn is kept as c, v and the range; the
\* tiles stroked are strokedTiles of these.
drawGrid(c, v) == [cam |-> c, view |-> v, range |-> tileRange(c, v)]

\* the tiles whose outline the loop of a drawGrid() call strokes
strokedTiles(d) ==
  {t \in (d.range.iMin..d.range.iMax) \X (d.range.jMin..d.range.jMax) :
     LET on == onScreenTile(t[1], t[2], d.cam, d.view)
     IN  ~rejected(on[1], on[2], d.view)}

(* ---------------- frame clock ---------------- *)
\* dt = Math.min(0.05, (now - last) / 1000), with el = now - last
frameDt(el) == Min(DtCap, el)

(* ---------------- tap variant ---------------- *)
\* the switch of the keydown handler
TapDir(k) ==
  CASE k = "ArrowUp"    -> <<0, 0 - 1>>
    [] k = "ArrowDown"  -> <<0, 1>>
    [] k = "ArrowRight" -> <<1, 0>>
    [] k = "ArrowLeft"  -> <<0 - 1, 0>>

\* mutant: auto-repeats are queued too
keydownTapRepeat(q, k, r) ==
  IF k \in ArrowSet THEN Append(q, TapDir(k)) ELSE q

\* the keydown handler: the queue after a keydown of key k with e.repeat = r
keydownTap(q, k, r) ==
  IF k \in ArrowSet
  THEN IF r THEN q ELSE Append(q, TapDir(k))
  ELSE q

\* mutant: the destination is taken from the origin of the step before
startStepTapFromStart(p, di, dj) ==
  [p EXCEPT !.moving = TRUE,
            !.startI = p.gridI, !.startJ = p.gridJ,
            !.destI = p.startI + di, !.destJ = p.startJ + dj,
            !.t = 0]

startStepTap(p, di, dj) ==
  [p EXCEPT !.moving = TRUE,
            !.startI = p.gridI, !.startJ = p.gridJ,
            !.destI = p.gridI + di, !.destJ = p.gridJ + dj,
            !.t = 0]

\* mutant: if (t > 1)
CompleteStrict(t) == t > TU

\* if (t >= 1)
Complete(t) == t >= TU

\* mutant: the render position is snapped to the start tile
snapTapStart(p) ==
  [p EXCEPT !.gridI = p.destI, !.gridJ = p.destJ,
            !.i = Z(p.startI * PosScale), !.j = Z(p.startJ * PosScale),
            !.moving = FALSE]

\* the snap to the destination tile
snapTap(p) ==
  [p EXCEPT !.gridI = p.destI, !.gridJ = p.destJ,
            !.i = Z(p.destI * PosScale), !.j = Z(p.destJ * PosScale),
            !.moving = FALSE]

\* mutant: pop() instead of shift()
chainTapPop(p, q) ==
  IF Len(q) > 0
  THEN [player |-> startStepTap(p, q[Len(q)][1], q[Len(q)][2]),
        queue |-> SubSeq(q, 1, Len(q) - 1)]
  ELSE [player |-> p, queue |-> q]

\* shift the queue and start the step, if a tap is queued
chainTap(p, q) ==
  IF Len(q) > 0
  THEN [player |-> startStepTap(p, Head(q)[1], Head(q)[2]), queue |-> Tail(q)]
  ELSE [player |-> p, queue |-> q]

\* mutant: player.t = player.speed * dt, the progress is not accumulated
moveTapAssign(p, q, d) ==
  IF ~p.moving
  THEN chainTap(p, q)
  ELSE LET pt == Speed("tap") * d
           t  == Min(TU, pt)
           u  == easeInOutSine(t)
           p1 == [p EXCEPT !.t = pt,
                           !.i = Z(lerp(p.startI, p.destI, u)),
                           !.j = Z(lerp(p.startJ, p.destJ, u))]
       IN  IF Complete(t)
           THEN chainTap(snapTap(p1), q)
           ELSE [player |-> p1, queue |-> q]

\* the movement part of update
moveTap(p, q, d) ==
  IF ~p.moving
  THEN chainTap(p, q)
  ELSE LET pt == p.t + Speed("tap") * d
           t  == Min(TU, pt)
           u  == easeInOutSine(t)
           p1 == [p EXCEPT !.t = pt,
                           !.i = Z(lerp(p.startI, p.destI, u)),
                           !.j = Z(lerp(p.startJ, p.destJ, u))]
       IN  IF Complete(t)
           THEN chainTap(snapTap(p1), q)
           ELSE [player |-> p1, queue |-> q]

(* ---------------- held-key variant ---------------- *)
\* order.find(k => keys.has(k)) || null
firstHeld(ks) ==
  IF \E n \in 1..4 : Arrows[n] \in ks
  THEN Arrows[CHOOSE n \in 1..4 :
                /\ Arrows[n] \in ks
                /\ \A m \in 1..(n - 1) : Arrows[m] \notin ks]
  ELSE Null

keydownHeld(ks, lk, k) ==
  IF k \in ArrowSet
  THEN [keys |-> ks \cup {k}, lastKey |-> k]
  ELSE [keys |-> ks, lastKey |-> lk]

keyupHeld(ks, lk, k) ==
  IF StartsWithArrow(k)
  THEN [keys |-> ks \ {k},
        lastKey |-> IF k = lk THEN firstHeld(ks \ {k}) ELSE lk]
  ELSE [keys |-> ks, lastKey |-> lk]

\* the switch of chooseDirection
\* mutant: the deltas of the tap variant, one tile along one axis
HeldDirAxis(k) ==
  CASE k = "ArrowUp"    -> <<0, 0 - 1>>
    [] k = "ArrowDown"  -> <<0, 1>>
    [] k = "ArrowLeft"  -> <<0 - 1, 0>>
    [] k = "ArrowRight" -> <<1, 0>>
    [] OTHER            -> <<>>

HeldDir(k) ==
  CASE k = "ArrowUp"    -> <<0 - 1, 0 - 1>>
    [] k = "ArrowDown"  -> <<1, 1>>
    [] k = "ArrowLeft"  -> <<0 - 1, 1>>
    [] k = "ArrowRight" -> <<1, 0 - 1>>
    [] OTHER            -> <<>>

\* mutant: the fixed order only, lastKey is not consulted
chooseDirectionOrder(ks, lk) ==
  IF firstHeld(ks) = Null THEN <<>> ELSE HeldDir(firstHeld(ks))

\* chooseDirection(): <<di, dj>>, or <<>> for null
chooseDirection(ks, lk) ==
  LET k1 == IF lk # Null /\ lk \in ks THEN lk ELSE Null
      k2 == IF k1 = Null THEN firstHeld(ks) ELSE k1
  IN  IF k2 = Null THEN <<>> ELSE HeldDir(k2)

\* mutant: the origin of the step is not recorded
startStepHeldKeepStart(p, di, dj) ==
  IF p.moving THEN p
  ELSE [p EXCEPT !.destI = p.gridI + di, !.destJ = p.gridJ + dj,
                 !.t = 0, !.moving = TRUE]

startStepHeld(p, di, dj) ==
  IF p.moving THEN p
  ELSE [p EXCEPT !.startI = p.gridI, !.startJ = p.gridJ,
                 !.destI = p.gridI + di, !.destJ = p.gridJ + dj,
                 !.t = 0, !.moving = TRUE]

snapHeld(p) ==
  [p EXCEPT !.moving = FALSE,
            !.gridI = p.destI, !.gridJ = p.destJ,
            !.i = Z(p.destI * PosScale), !.j = Z(p.destJ * PosScale)]

\* the movement part of update
moveHeld(p, ks, lk, d) ==
  LET dir == chooseDirection(ks, lk)
      p0  == IF ~p.moving /\ dir # <<>>
             THEN startStepHeld(p, dir[1], dir[2]) ELSE p
  IN  IF p0.moving
      THEN LET pt == p0.t + Speed("held") * d
               t  == Min(TU, pt)
               p1 == [p0 EXCEPT !.t = pt,
                                !.i = Z(lerp(p0.startI, p0.destI, t)),
                                !.j = Z(lerp(p0.startJ, p0.destJ, t))]
           IN  IF Complete(t) THEN snapHeld(p1) ELSE p1
      ELSE [p0 EXCEPT !.i = Z(p0.gridI * PosScale),
                      !.j = Z(p0.gridJ * PosScale)]

(* ---------------- free variant ---------------- *)
keydownFree(ks, k) == IF StartsWithArrow(k) THEN ks \cup {k} ELSE ks
keyupFree(ks, k) == IF StartsWithArrow(k) THEN ks \ {k} ELSE ks

\* the four keys.has(...) lines: the summed direction <<di, dj>>
heading(ks) ==
  LET up == IF "ArrowUp"    \in ks THEN <<0 - 1, 0 - 1>> ELSE <<0, 0>>
      dn == IF "ArrowDown"  \in ks THEN <<1, 1>>         ELSE <<0, 0>>
      lf == IF "ArrowLeft"  \in ks THEN <<0 - 1, 1>>     ELSE <<0, 0>>
      rt == IF "ArrowRight" \in ks THEN <<1, 0 - 1>>     ELSE <<0, 0>>
  IN  <<up[1] + dn[1] + lf[1] + rt[1], up[2] + dn[2] + lf[2] + rt[2]>>

\* mutant: the length is taken as |di| + |dj|, which is 2 in every case
normalizedManhattan(c, di, dj, m) == <<(c * m) \div 2, 0>>

\* (c / Math.hypot(di, dj)) * m as a + b*sqrt(2); hypot is sqrt(2) or 2 here
normalized(c, di, dj, m) ==
  IF di * di + dj * dj = 2
  THEN <<0, (c * m) \div 2>>
  ELSE <<(c * m) \div 2, 0>>

\* the movement part of update
moveFree(p, ks, d) ==
  LET h == heading(ks)
  IN  IF h[1] # 0 \/ h[2] # 0
      THEN [p EXCEPT
              !.i = Plus(p.i, normalized(h[1], h[1], h[2], Speed("free") * d)),
              !.j = Plus(p.j, normalized(h[2], h[1], h[2], Speed("free") * d))]
      ELSE p

(* ---------------- history of the first step ---------------- *)
\* stage: "none", "req" (requested from idle at (0,0)), "run", "done" (the
\* update that completed it has just run), "over".  req: the dt passed to
\* update since the request.  adv: the dt passed to the update calls that
\* advanced the step.  to: its destination.
NoFirst == [stage |-> "none", req |-> 0, adv |-> 0, to |-> <<0, 0>>]

\* the sums are followed up to a quarter of a second, which no first step
\* reaches
FirstCap == TU \div 4

\* the history after an update(d) that left the player as p; counted tells
\* whether the call that starts the step also advances it
FirstNext(f, p, d, completed, counted) ==
  CASE f.stage = "req" ->
         [stage |-> "run", req |-> d, adv |-> IF counted THEN d ELSE 0,
          to |-> <<p.destI, p.destJ>>]
    [] f.stage = "run" ->
         [f EXCEPT !.stage = IF completed THEN "done" ELSE "run",
                   !.req = Min(f.req + d, FirstCap),
                   !.adv = Min(f.adv + d, FirstCap)]
    [] f.stage = "done" -> [NoFirst EXCEPT !.stage = "over"]
    [] OTHER -> f

\* a step was completed by the update that took the player from p to q
Completed(p, q) == p.moving /\ <<q.gridI, q.gridJ>> # <<p.gridI, p.gridJ>>

\* a step was started by the update that took the player from p to q
Started(p, q) ==
  /\ q.moving
  /\ \/ ~p.moving
     \/ Completed(p, q)

(* ---------------- initial state ---------------- *)
\* the player and cam literals, then init(): resize(), the snap to the grid
\* position and the camera on the start tile
InitState ==
  /\ variant \in Variants
  /\ player = [i |-> Z(0), j |-> Z(0), gridI |-> 0, gridJ |-> 0,
               startI |-> 0, startJ |-> 0, destI |-> 0, destJ |-> 0,
               t |-> 0, moving |-> FALSE]
  /\ cam = [x |-> iso(Z(0), Z(0)).x, y |-> iso(Z(0), Z(0)).y]
  /\ keys = {}
  /\ lastKey = Null
  /\ tapQueue = <<>>
  /\ view \in Views
  /\ taps = <<>>
  /\ steps = <<>>
  /\ nsteps = 0
  /\ stalls = 0
  /\ recent = Null
  /\ buf = Null
  /\ first = NoFirst
  /\ probe = <<>>
  /\ drawn = <<>>

\* timestamps are taken relative to the start
Init ==
  /\ InitState
  /\ last = 0

(* ---------------- handlers ---------------- *)
\* In Spec a frame is given by the time elapsed since the previous frame
\* (el = now - last) and sets last to now = last + el.

\* mutant: the handler also moves the camera to follow the actor
ResizeRecentre ==
  /\ \E v \in Views : view' = v /\ cam' = Camera(player, cam, v)
  /\ UNCHANGED <<variant, player, keys, lastKey, tapQueue, last,
                 taps, steps, nsteps, stalls, recent, buf, first,
                 probe, drawn>>

\* window 'resize': the canvas takes the size of the window
Resize ==
  /\ \E v \in Views : view' = v
  /\ UNCHANGED <<variant, player, cam, keys, lastKey, tapQueue, last,
                 taps, steps, nsteps, stalls, recent, buf, first,
                 probe, drawn>>

\* tap: window 'keydown'
KeydownTap ==
  /\ variant = "tap"
  /\ \E k \in KeyNames, r \in BOOLEAN :
       LET press == k \in ArrowSet /\ ~r
       IN  /\ press => Len(taps) < MaxTaps
           /\ tapQueue' = keydownTap(tapQueue, k, r)
           /\ taps' = IF press THEN Append(taps, k) ELSE taps
           /\ first' = IF press /\ taps = <<>>
                       THEN [NoFirst EXCEPT !.stage = "req"] ELSE first
  /\ UNCHANGED <<variant, player, cam, keys, lastKey, view, last,
                 steps, nsteps, stalls, recent, buf,
                 probe, drawn>>

\* tap: tick(now) with el = now - last: last = now; update(dt); render()
FrameTap(el) ==
  /\ LET d == frameDt(el)
           r == moveTap(player, tapQueue, d)
           odd == Irregular(el, IF player.moving THEN d ELSE 0)
       IN  /\ r.player.t >= 0 - MaxBack * Speed("tap") * Frame("tap")
           /\ last + el \in Clock("tap")
           /\ stalls + odd <= MaxIrregular("tap")
           /\ last' = last + el
           /\ stalls' = stalls + odd
           /\ player' = r.player
           /\ tapQueue' = r.queue
           /\ cam' = Camera(r.player, cam, view)
           /\ drawn' = <<drawGrid(cam', view)>>
           /\ steps' = IF Started(player, r.player)
                       THEN Append(steps,
                              [from |-> <<r.player.startI, r.player.startJ>>,
                               to   |-> <<r.player.destI, r.player.destJ>>])
                       ELSE steps
           /\ first' = FirstNext(first, r.player, d,
                                 Completed(player, r.player), FALSE)
  /\ UNCHANGED <<variant, keys, lastKey, view, taps, nsteps,
                 recent, buf,
                 probe>>

\* tap: one animation frame
TickTap ==
  /\ variant = "tap"
  /\ \E el \in Elapsed("tap") : FrameTap(el)

\* held: the effect of one keydown
PressHeld(k) ==
  LET r == keydownHeld(keys, lastKey, k)
  IN  /\ keys' = r.keys
      /\ lastKey' = r.lastKey
      /\ recent' = IF k \in ArrowSet THEN k ELSE recent
      /\ buf' = IF k \in ArrowSet /\ k \notin keys /\ player.moving THEN k ELSE buf
      /\ first' = IF k \in ArrowSet /\ first.stage = "none"
                  THEN [NoFirst EXCEPT !.stage = "req"] ELSE first
      /\ UNCHANGED <<variant, player, cam, tapQueue, view, last,
                     taps, steps, nsteps, stalls,
                 probe, drawn>>

\* held: window 'keydown'
KeydownHeld ==
  /\ variant = "held"
  /\ \E k \in KeyNames :
       /\ Cardinality(keydownHeld(keys, lastKey, k).keys) <= MaxHeld
       /\ PressHeld(k)

\* held: window 'keyup'
KeyupHeld ==
  /\ variant = "held"
  /\ \E k \in KeyNames :
       LET r == keyupHeld(keys, lastKey, k)
       IN  /\ keys' = r.keys
           /\ lastKey' = r.lastKey
           /\ recent' = IF k = recent THEN Null ELSE recent
           /\ first' = IF first.stage = "req" /\ keys \ {k} = {}
                       THEN NoFirst ELSE first
  /\ UNCHANGED <<variant, player, cam, tapQueue, view, last,
                 taps, steps, nsteps, stalls, buf,
                 probe, drawn>>

\* held: tick(now) with el = now - last: last = now; update(dt); render()
FrameHeld(el) ==
  /\ LET d == frameDt(el)
           p == moveHeld(player, keys, lastKey, d)
           n == IF Started(player, p) THEN nsteps + 1 ELSE nsteps
           odd == Irregular(el, IF p.moving \/ Completed(player, p)
                                THEN d ELSE 0)
       IN  /\ p.t >= 0 - MaxBack * Speed("held") * Frame("held")
           /\ n <= MaxSteps
           /\ last + el \in Clock("held")
           /\ stalls + odd <= MaxIrregular("held")
           /\ last' = last + el
           /\ stalls' = stalls + odd
           /\ player' = p
           /\ cam' = Camera(p, cam, view)
           /\ drawn' = <<drawGrid(cam', view)>>
           /\ nsteps' = n
           /\ buf' = IF player.moving
                         /\ ~(Completed(player, p) /\ keys \cap ArrowSet # {})
                      THEN buf ELSE Null
           /\ first' = FirstNext(first, p, d, Completed(player, p), TRUE)
  /\ UNCHANGED <<variant, keys, lastKey, tapQueue, view,
                 taps, steps, recent,
                 probe>>

\* held: one animation frame
TickHeld ==
  /\ variant = "held"
  /\ \E el \in Elapsed("held") : FrameHeld(el)

\* free: window 'keydown'
KeydownFree ==
  /\ variant = "free"
  /\ \E k \in KeyNames :
       /\ Cardinality(keydownFree(keys, k)) <= MaxHeldFree
       /\ keys' = keydownFree(keys, k)
  /\ UNCHANGED <<variant, player, cam, lastKey, tapQueue, view, last,
                 taps, steps, nsteps, stalls, recent, buf, first,
                 probe, drawn>>

\* free: window 'keyup'
KeyupFree ==
  /\ variant = "free"
  /\ \E k \in KeyNames : keys' = keyupFree(keys, k)
  /\ UNCHANGED <<variant, player, cam, lastKey, tapQueue, view, last,
                 taps, steps, nsteps, stalls, recent, buf, first,
                 probe, drawn>>

\* free: tick(now) with el = now - last: last = now; update(dt); render()
FrameFree(el) ==
  LET d == frameDt(el)
      p == moveFree(player, keys, d)
      ax == Speed("free") * DtCap
      odd == Irregular(el, IF heading(keys) # <<0, 0>> THEN d ELSE 0)
  IN  /\ last + el \in Clock("free")
      /\ stalls + odd <= MaxIrregular("free")
      /\ last' = last + el
      /\ stalls' = stalls + odd
      /\ Abs(p.i[1]) + Abs(p.j[1]) <= MaxAxial * ax
      /\ Abs(p.i[2] - p.j[2]) <= MaxAcross * ax
      /\ Abs(p.i[2] + p.j[2]) <= MaxAlong * ax
      /\ player' = p
      /\ cam' = Camera(p, cam, view)
      /\ drawn' = <<drawGrid(cam', view)>>

\* free: one animation frame
TickFree ==
  /\ variant = "free"
  /\ \E el \in Elapsed("free") : FrameFree(el)
  /\ UNCHANGED <<variant, keys, lastKey, tapQueue, view,
                 taps, steps, nsteps, recent, buf, first,
                 probe>>

\* a frame of any variant
Tick == TickTap \/ TickHeld \/ TickFree

Next ==
  \/ Resize
  \/ KeydownTap
  \/ TickTap
  \/ KeydownHeld
  \/ KeyupHeld
  \/ TickHeld
  \/ KeydownFree
  \/ KeyupFree
  \/ TickFree

Spec == Init /\ [][Next]_vars

(* ---------------- the key handlers alone ---------------- *)
\* no frames, and any number of keys held at once
KeydownHeldAny ==
  /\ variant = "held"
  /\ \E k \in KeyNames : PressHeld(k)

KeydownFreeAny ==
  /\ variant = "free"
  /\ \E k \in KeyNames : keys' = keydownFree(keys, k)
  /\ UNCHANGED <<variant, player, cam, lastKey, tapQueue, view, last,
                 taps, steps, nsteps, stalls, recent, buf, first,
                 probe, drawn>>

NextKeys ==
  \/ KeydownTap
  \/ KeydownHeldAny
  \/ KeyupHeld
  \/ KeydownFreeAny
  \/ KeyupFree

SpecKeys == Init /\ [][NextKeys]_vars

(* ---------------- the render loop of the grid variants ---------------- *)
\* tick ends with requestAnimationFrame(tick), so frames keep coming, and
\* the timestamps the browser passes to successive frames increase: in this
\* specification no frame is earlier than the one before it, and frames
\* that are later keep being delivered while a step is in progress and the
\* range of timestamps has a later one.
InitLive ==
  /\ Init
  /\ variant \in {"held", "tap"}

\* now - last >= 0
Forward(v) == {el \in Elapsed(v) : el >= 0}

TickTapForward ==
  /\ variant = "tap"
  /\ \E el \in Forward("tap") : FrameTap(el)

TickHeldForward ==
  /\ variant = "held"
  /\ \E el \in Forward("held") : FrameHeld(el)

\* a frame later than the previous one, with a step in progress
Advance ==
  /\ player.moving
  /\ \/ variant = "tap" /\ \E el \in Forward("tap") : el > 0 /\ FrameTap(el)
     \/ variant = "held" /\ \E el \in Forward("held") : el > 0 /\ FrameHeld(el)

NextLive ==
  \/ Resize
  \/ KeydownTap
  \/ TickTapForward
  \/ KeydownHeld
  \/ KeyupHeld
  \/ TickHeldForward

\* the range of timestamps has none later than last
ClockOut == last + Frame(variant) > MaxFrames(variant) * Frame(variant)

\* Advance can be taken exactly when a step is in progress and the range
\* has a later timestamp, so weak fairness of Advance, WF_vars(Advance), is:
\* infinitely often no step is in progress or the range is at its end, or
\* infinitely often Advance is taken.
FairFrames ==
  []<>(~player.moving \/ ClockOut) \/ []<><<Advance>>_vars

SpecLive == InitLive /\ [][NextLive]_vars /\ FairFrames

(* ---------------- free motion alone ---------------- *)
\* the free variant with any set of keys held, over the first frames of a
\* run
InitMove ==
  /\ Init
  /\ variant = "free"

UpdateFree ==
  /\ variant = "free"
  /\ \E el \in Elapsed("free") :
       /\ last + el <= MaxMoves * Frame("free")
       /\ FrameFree(el)
  /\ UNCHANGED <<variant, keys, lastKey, tapQueue, view,
                 taps, steps, nsteps, recent, buf, first,
                 probe>>

NextMove ==
  \/ KeydownFreeAny
  \/ KeyupFree
  \/ UpdateFree

SpecMove == InitMove /\ [][NextMove]_vars

(* ---------------- drawGrid alone ---------------- *)
\* viewports and camera offsets of drawGrid alone: the offsets go through
\* tiles across and down in steps of a seventh of a tile, and 1/PxScale
\* pixel to either side of each of these offsets
GridViews == {<<320, 240>>, <<640, 480>>}
CamStepX == (TILE_W * PxScale) \div 7
CamStepY == (TILE_H * PxScale) \div 7
CamNear == {0 - 1, 0, 1}
GridCams ==
  {[x |-> Z(n * CamStepX + ox), y |-> Z(m * CamStepY + oy)] :
     n \in (0 - MaxCam)..MaxCam, m \in (0 - MaxCam)..MaxCam,
     ox \in CamNear, oy \in CamNear}

InitGrid ==
  /\ variant = "tap"
  /\ player = [i |-> Z(0), j |-> Z(0), gridI |-> 0, gridJ |-> 0,
               startI |-> 0, startJ |-> 0, destI |-> 0, destJ |-> 0,
               t |-> 0, moving |-> FALSE]
  /\ cam \in GridCams
  /\ view \in GridViews
  /\ keys = {} /\ lastKey = Null /\ tapQueue = <<>>
  /\ last = 0 /\ taps = <<>> /\ steps = <<>> /\ nsteps = 0
  /\ stalls = 0 /\ recent = Null /\ buf = Null /\ first = NoFirst
  /\ probe = <<>> /\ drawn = <<>>

\* render(): drawGrid() with the camera and the canvas as they are
DrawGrid ==
  /\ drawn' = <<drawGrid(cam, view)>>
  /\ UNCHANGED <<variant, player, cam, keys, lastKey, tapQueue, view, last,
                 taps, steps, nsteps, stalls, recent, buf, first, probe>>

SpecGrid == InitGrid /\ [][DrawGrid]_vars

(* ---------------- the projection alone ---------------- *)
\* iso and isoToTile applied to the tiles of a bounded range: probe records
\* the tile, its image, the tile computed back from the image and the image
\* of that tile
Tiles == (0 - MaxTile)..MaxTile

Project ==
  /\ \E i \in Tiles, j \in Tiles :
       LET pt == iso(Z(i * PosScale), Z(j * PosScale))
           back == isoToTile(pt.x, pt.y)
       IN  probe' = <<[tile |-> <<i, j>>, pt |-> pt, back |-> back,
                       again |-> isoAt(back.i, back.j, TileScale)]>>
  /\ UNCHANGED <<variant, player, cam, keys, lastKey, tapQueue, view, last,
                 taps, steps, nsteps, stalls, recent, buf, first, drawn>>

SpecIso == Init /\ [][Project]_vars

(* ---------------- types ---------------- *)
TypeOK ==
  /\ variant \in Variants
  /\ player.moving \in BOOLEAN
  /\ keys \subseteq KeyNames
  /\ lastKey \in ArrowSet \cup {Null}
  /\ view \in Views
  /\ first.req < FirstCap /\ first.adv < FirstCap

(* ======================= claims ======================= *)
GridVariant == variant \in {"held", "tap"}
GridPos == <<player.gridI, player.gridJ>>
AtGrid(p) == p.i = Z(p.gridI * PosScale) /\ p.j = Z(p.gridJ * PosScale)
Sum(a, b) == <<a[1] + b[1], a[2] + b[2]>>
HeldArrows == keys \cap ArrowSet

\* C1: tap variant: the k-th step started goes from the tile the (k-1)-th
\* step reached (the start tile for k = 1) by the delta of the k-th
\* non-repeat arrow keydown: taps are used in the order of arrival, none
\* skipped, none used twice.
C1_TapFifo ==
  variant = "tap" =>
    /\ Len(steps) <= Len(taps)
    /\ \A k \in 1..Len(steps) :
         /\ steps[k].from = IF k = 1 THEN <<0, 0>> ELSE steps[k - 1].to
         /\ steps[k].to = Sum(steps[k].from, TapDir(taps[k]))

\* three different taps, all three steps performed
C1_Witness ==
  /\ variant = "tap"
  /\ Len(steps) = 3
  /\ taps[1] # taps[2] /\ taps[2] # taps[3]
  /\ ~player.moving
  /\ GridPos = steps[3].to

\* C2: grid variants: whenever the actor is not moving, the render position
\* is the grid position exactly.
C2_IdleAtGrid == (GridVariant /\ ~player.moving) => AtGrid(player)

\* at rest on another tile after a step that overshot progress 1
C2_Witness ==
  /\ variant = "held"
  /\ ~player.moving
  /\ GridPos # <<0, 0>>
  /\ player.t > TU

\* 1/s seconds, in time units
OneStep(v) == TU \div Speed(v)

\* the first step is complete: grid and render position on its destination,
\* the actor at rest or on a chained step that starts from there
FirstStepComplete ==
  /\ first.stage = "done"
  /\ GridPos = first.to
  /\ AtGrid(player)
  /\ \/ ~player.moving
     \/ <<player.startI, player.startJ>> = GridPos /\ player.t = 0

\* C3 as claimed: grid variants: from idle at (0,0) with one step requested,
\* once the dt passed to update since the request sums to 1/s the step is
\* complete.
C3_SinceRequest ==
  (GridVariant /\ first.stage \in {"run", "done"}
     /\ first.req >= OneStep(variant))
  => FirstStepComplete

\* C3 amended: the same, with the sum taken over the update calls that
\* advance the step: in the tap variant the call that dequeues the tap only
\* starts the step, and its dt is not counted.
C3_SinceStart ==
  (GridVariant /\ first.stage \in {"run", "done"}
     /\ first.adv >= OneStep(variant))
  => FirstStepComplete

\* the first tap's step completes with exactly 1/8 s counted
C3_Witness ==
  /\ variant = "tap"
  /\ first.stage = "done"
  /\ first.adv = OneStep("tap")
  /\ first.req > first.adv

\* input is pending: a queued tap, or a held direction key
Pending ==
  \/ variant = "tap" /\ tapQueue # <<>>
  \/ variant = "held" /\ HeldArrows # {}

\* C4: grid variants: an update that completes a step while input is pending
\* ends with the actor stepping again, from the tile just reached, with the
\* progress reset.
C4_ChainSameUpdate ==
  [][(Tick /\ Completed(player, player') /\ Pending)
       => /\ player'.moving
          /\ <<player'.startI, player'.startJ>>
               = <<player'.gridI, player'.gridJ>>
          /\ player'.t = 0]_vars

\* the first key of the fixed order that is held, written out
FirstInOrder ==
  IF "ArrowUp" \in keys THEN "ArrowUp"
  ELSE IF "ArrowDown" \in keys THEN "ArrowDown"
  ELSE IF "ArrowLeft" \in keys THEN "ArrowLeft"
  ELSE "ArrowRight"

\* C5: held variant: chooseDirection() gives the delta of the most recently
\* pressed arrow key while it is held; once that key is released, the delta
\* of the first held key in the order Up, Down, Left, Right; and null
\* exactly when no arrow key is held.
C5_Choose ==
  variant = "held" =>
    chooseDirection(keys, lastKey) =
      IF HeldArrows = {} THEN <<>>
      ELSE IF recent # Null THEN HeldDir(recent)
      ELSE HeldDir(FirstInOrder)

\* the most recent key was released with two others held: the fixed order
\* decides, and not for its first key
C5_Witness ==
  /\ variant = "held"
  /\ recent = Null
  /\ keys = {"ArrowLeft", "ArrowRight"}
  /\ chooseDirection(keys, lastKey) = HeldDir("ArrowLeft")

\* C6: held variant: a direction key pressed and released during a step is
\* buffered; when the step has completed with no key held, the next idle
\* update starts one step in the buffered direction.
C6_Buffered ==
  [][(TickHeld /\ ~player.moving /\ buf # Null /\ HeldArrows = {})
       => /\ player'.moving
          /\ <<player'.destI, player'.destJ>> = Sum(GridPos, HeldDir(buf))]_vars

\* C7: tap variant: every non-repeat arrow keydown, and no other event, adds
\* one entry to the queue: steps started + queue length = such keydowns.
C7_OnePerPress ==
  variant = "tap" => Len(steps) + Len(tapQueue) = Len(taps)

\* two steps started and a third tap waiting
C7_Witness ==
  /\ variant = "tap"
  /\ Len(steps) = 2
  /\ Len(tapQueue) = 1
  /\ player.moving

\* the actor p is inside the horizontal (vertical) deadzone of viewport v
\* as seen by camera c: dzLeft <= onScreenX <= dzRight
InsideX(p, c, v) ==
  LET dz == Deadzone(v)
      on == OnScreen(iso(p.i, p.j).x, c.x, dz.w2)
  IN  ~Less(on, Z(dz.dzLeft)) /\ ~Less(Z(dz.dzRight), on)
InsideY(p, c, v) ==
  LET dz == Deadzone(v)
      on == OnScreen(iso(p.i, p.j).y, c.y, dz.h2)
  IN  ~Less(on, Z(dz.dzTop)) /\ ~Less(Z(dz.dzBottom), on)

\* C8: all variants: an update that finds the actor inside the deadzone on
\* an axis leaves the camera offset of that axis unchanged, whatever happens
\* on the other axis (stated by contraposition: an update changes the offset
\* of an axis only if it finds the actor outside the deadzone on that axis).
C8_Hysteresis ==
  [][(/\ cam'.x # cam.x => ~InsideX(player', cam, view)
      /\ cam'.y # cam.y => ~InsideY(player', cam, view)) \/ ~Tick]_vars

\* the camera has followed on the vertical axis only, the actor being off
\* centre horizontally
C8_Witness ==
  /\ variant = "tap"
  /\ cam.x = Z(0)
  /\ cam.y # Z(0)
  /\ iso(player.i, player.j).x # Z(0)

\* the deadzone half sizes of the claim, in 1/PxScale pixel:
\* clamp(0.32 w, 200, 380) / 2 and clamp(0.28 h, 160, 260) / 2
HalfDzw(w) ==
  IF 32 * w < 200 * 100 THEN 100 * PxScale
  ELSE IF 32 * w > 380 * 100 THEN 190 * PxScale
  ELSE (16 * w * PxScale) \div 100
HalfDzh(h) ==
  IF 28 * h < 160 * 100 THEN 80 * PxScale
  ELSE IF 28 * h > 260 * 100 THEN 130 * PxScale
  ELSE (14 * h * PxScale) \div 100

\* where the actor p is on screen, relative to the centre of the viewport
OffX(p, c) == Minus(iso(p.i, p.j).x, c.x)
OffY(p, c) == Minus(iso(p.i, p.j).y, c.y)

\* before the camera part of an update the offset was o; after it, o2
SnappedTo(o, o2, half) ==
  /\ Less(o, Z(0 - half)) => o2 = Z(0 - half)
  /\ Less(Z(half), o) => o2 = Z(half)

\* C9: all variants: an update that finds the actor outside the deadzone on
\* an axis sets the camera offset of that axis so that the actor is exactly
\* on the deadzone boundary it crossed.
C9_Snap ==
  [][(/\ SnappedTo(OffX(player', cam), OffX(player', cam'),
                    HalfDzw(view[1]))
      /\ SnappedTo(OffY(player', cam), OffY(player', cam'),
                    HalfDzh(view[2]))) \/ ~Tick]_vars

\* free variant: the actor is on the right boundary of the deadzone, at a
\* position that is not rational
C9_Witness ==
  /\ variant = "free"
  /\ cam.x[2] # 0
  /\ OffX(player, cam) = Z(HalfDzw(view[1]))

\* C10: all variants: every dt passed to update lies in [0, 0.05] seconds.
C10_DtRange ==
  [][LET d == frameDt(last' - last) IN 0 <= d /\ d <= DtCap]_vars

\* C11: grid variants: the step progress player.t is at most 1 in every
\* reachable state (the upper end of the claimed range [0,1]; the lower end
\* is left out here, since it fails only through the negative dt of C10).
C11_ProgressAtMostOne == GridVariant => player.t <= TU

\* the number of the step in progress, or of the last one
StepNo == IF variant = "tap" THEN Len(steps) ELSE nsteps
MaxStepNo == Max(MaxTaps, MaxSteps)

\* the n-th step is in progress
InStep(n) == GridVariant /\ player.moving /\ StepNo = n

\* the n-th step is over: the actor is at rest on its destination, or on a
\* later step
Reached(n) ==
  \/ StepNo = n /\ ~player.moving /\ GridPos = <<player.destI, player.destJ>>
  \/ StepNo > n

\* the regular frames that hold a step: 1 / (speed * frame), and two more
\* for each frame longer than the cap, which advances the step by the cap
\* only
StepFrames(v) == TU \div (Speed(v) * Frame(v)) + 2 * MaxStalls

\* the latest timestamp that leaves the range of timestamps room for the
\* frames of a step
Late(v) == (MaxFrames(v) - StepFrames(v)) * Frame(v)

\* C12: grid variants, with frames that keep being delivered: a step in
\* progress (at a timestamp that leaves room for its frames) is eventually
\* complete, the grid position being its destination.
C12_StepCompletes ==
  \A n \in 1..MaxStepNo :
    (InStep(n) /\ last <= Late(variant)) ~> Reached(n)

\* the held variant at rest after its second step, which was in progress at
\* a timestamp that left room for its frames
C12_Witness ==
  /\ variant = "held"
  /\ nsteps = 2
  /\ Reached(2)
  /\ StepNo = 2
  /\ stalls = 0
  /\ last <= Late("held")
             + (TU \div (Speed("held") * Frame("held"))) * Frame("held")

\* C13: for every tile (i, j) of the range, isoToTile applied to the image
\* iso(i, j) gives (i, j) again, and iso applied to that result gives the
\* image again.
C13_RoundTrip ==
  \A k \in 1..Len(probe) :
    /\ probe[k].back = [i |-> Z(probe[k].tile[1] * TileScale),
                        j |-> Z(probe[k].tile[2] * TileScale)]
    /\ probe[k].again = probe[k].pt
    /\ probe[k].pt = [x |-> Z((probe[k].tile[1] - probe[k].tile[2]) * HALF_W * PxScale),
                      y |-> Z((probe[k].tile[1] + probe[k].tile[2]) * HALF_H * PxScale)]

C13_Witness ==
  /\ Len(probe) = 1
  /\ probe[1].tile = <<0 - 2, 3>>
  /\ probe[1].pt = [x |-> Z((0 - 5) * HALF_W * PxScale), y |-> Z(HALF_H * PxScale)]
  /\ probe[1].back.i = Z((0 - 2) * TileScale)

\* the delta of the latest step started
Delta == <<player.destI - player.startI, player.destJ - player.startJ>>
AxisUnits == {<<1, 0>>, <<0 - 1, 0>>, <<0, 1>>, <<0, 0 - 1>>}
DiagonalUnits == {<<1, 1>>, <<1, 0 - 1>>, <<0 - 1, 1>>, <<0 - 1, 0 - 1>>}
TapDeltas == {TapDir(k) : k \in ArrowSet}
HeldDeltas == {HeldDir(k) : k \in ArrowSet}
\* the deltas of the four keys in the variant that runs
KeyDeltas == IF variant = "tap" THEN TapDeltas ELSE HeldDeltas

\* C14 as stated: in both grid variants every step started has a delta
\* among (1,0), (-1,0), (0,1), (0,-1), and the four arrow keys map to four
\* distinct such deltas.
C14_AxisDeltas ==
  GridVariant /\ StepNo > 0 =>
    /\ Delta \in AxisUnits
    /\ KeyDeltas \subseteq AxisUnits /\ Cardinality(KeyDeltas) = 4

\* C14 amended: every step started in the tap variant has a delta among
\* (1,0), (-1,0), (0,1), (0,-1); every step started in the held-key variant
\* has a delta among (1,1), (1,-1), (-1,1), (-1,-1), one tile along both
\* axes; in each variant the four arrow keys map to four distinct deltas
\* of its set.
C14_UnitDeltas ==
  /\ variant = "tap" /\ StepNo > 0 => Delta \in AxisUnits
  /\ variant = "held" /\ StepNo > 0 => Delta \in DiagonalUnits
  /\ TapDeltas \subseteq AxisUnits /\ Cardinality(TapDeltas) = 4
  /\ HeldDeltas \subseteq DiagonalUnits /\ Cardinality(HeldDeltas) = 4

C14_Witness ==
  /\ variant = "held" /\ nsteps = 2 /\ player.moving
  /\ Delta = <<0 - 1, 1>>
  /\ <<player.startI, player.startJ>> = <<1, 1>>

\* the square of x[1] + x[2]*sqrt(2), as <<rational part, factor of sqrt(2)>>
Square2(x) == <<x[1] * x[1] + 2 * x[2] * x[2], 2 * x[1] * x[2]>>

\* C15: free variant: an update(dt) with keys held whose summed direction is
\* not zero moves the actor in tile space by a vector whose squared length
\* is (speed*dt)^2, with one key held as with two orthogonal keys; an update
\* with a summed direction of zero leaves the position unchanged.  (The key
\* handlers leave the position alone; a step that leaves keys unchanged is
\* an update.)
C15_UnitSpeed ==
  [][\/ keys' # keys
     \/ LET h == heading(keys)
            d == frameDt(last' - last)
            di == Minus(player'.i, player.i)
            dj == Minus(player'.j, player.j)
        IN  IF h = <<0, 0>>
            THEN player'.i = player.i /\ player'.j = player.j
            ELSE Plus(Square2(di), Square2(dj))
                   = <<(Speed("free") * d) * (Speed("free") * d), 0>>]_vars

C15_Witness ==
  /\ variant = "free"
  /\ keys = {"ArrowUp", "ArrowLeft"}
  /\ last = Frame("free")
  /\ player.i = Z(0 - Speed("free") * DtCap) /\ player.j = Z(0)

\* C16: all variants: a step that changes a field of player or the camera
\* offset is a frame (the update call of tick); the keydown, keyup and
\* resize handlers leave player and cam as they are.
C16_SingleWriter ==
  [][(player' = player /\ cam' = cam) \/ Tick]_vars

C16_Witness ==
  /\ variant = "held" /\ player.moving /\ player.t > 0
  /\ keys = {} /\ lastKey = Null
  /\ <<player.destI, player.destJ>> = <<0 - 2, 2>>
  /\ view = <<1500, 500>>
  /\ cam # [x |-> Z(0), y |-> Z(0)]

\* C17: all variants: a keydown or keyup of a key other than the four arrow
\* keys leaves the input state unchanged, so from the empty initial input
\* state the keys set never holds a name other than the four, and the tap
\* queue holds deltas of the four keys only.
C17_OnlyArrows ==
  /\ keys \subseteq ArrowSet
  /\ lastKey \in ArrowSet \cup {Null}
  /\ \A n \in 1..Len(tapQueue) : tapQueue[n] \in TapDeltas

\* the bounding box of tile (i, j) on the screen meets [0, w] x [0, h]
OnViewport(i, j, c, v) ==
  LET on == onScreenTile(i, j, c, v)
  IN  /\ ~Less(Plus(on[1], Z(HALF_W * PxScale)), Z(0))
      /\ ~Less(Z(v[1] * PxScale), Minus(on[1], Z(HALF_W * PxScale)))
      /\ ~Less(Plus(on[2], Z(HALF_H * PxScale)), Z(0))
      /\ ~Less(Z(v[2] * PxScale), Minus(on[2], Z(HALF_H * PxScale)))

\* C18: for every camera offset and viewport, every tile (i, j) whose
\* bounding box on the screen meets the viewport rectangle is within the
\* iteration range of drawGrid and is not rejected: its outline is stroked.
C18_VisibleDrawn ==
  \A k \in 1..Len(drawn) :
    LET d == drawn[k]
        tiles == strokedTiles(d)
    IN  \A i \in (0 - MaxSeen)..MaxSeen, j \in (0 - MaxSeen)..MaxSeen :
          OnViewport(i, j, d.cam, d.view) =>
            /\ i \in d.range.iMin..d.range.iMax
            /\ j \in d.range.jMin..d.range.jMax
            /\ <<i, j>> \in tiles

C18_Witness ==
  /\ Len(drawn) = 1
  /\ view = <<320, 240>>
  /\ cam = [x |-> Z(3 * CamStepX + 1), y |-> Z((0 - 2) * CamStepY - 1)]
  /\ drawn[1].cam = cam /\ drawn[1].view = view
  /\ OnViewport(2, 0 - 1, cam, view)
  /\ <<2, 0 - 1>> \in strokedTiles(drawn[1])
  /\ \E t \in strokedTiles(drawn[1]) : ~OnViewport(t[1], t[2], cam, view)

\* C19: all variants: at the end of every update the actor's position on
\* the screen is within the closed deadzone of the viewport of that frame:
\* dzLeft <= p.x - cam.x + w/2 <= dzRight and
\* dzTop <= p.y - cam.y + h/2 <= dzBottom.
C19_InDeadzone ==
  [][(InsideX(player', cam', view') /\ InsideY(player', cam', view'))
     \/ ~Tick]_vars

C19_Witness ==
  /\ variant = "held" /\ player.moving /\ view = <<500, 750>>
  /\ cam.y # Z(0) /\ cam.x = Z(0)
  /\ OnScreen(iso(player.i, player.j).y, cam.y, Deadzone(view).h2)
       = Z(Deadzone(view).dzTop)

\* the sum of the deltas of a sequence
RECURSIVE SumSeq(_)
SumSeq(q) == IF q = <<>> THEN <<0, 0>> ELSE Sum(Head(q), SumSeq(Tail(q)))

\* the tile the actor is on or is heading for
Heading == IF player.moving THEN <<player.destI, player.destJ>> ELSE GridPos

\* C20: tap variant: in every reachable state the destination of the step in
\* progress (the grid position when idle) plus the deltas still in tapQueue
\* equals the sum of the deltas of all non-repeat arrow keydowns so far; no
\* tap is lost or used twice.
C20_TapsConserved ==
  variant = "tap" =>
    Sum(Heading, SumSeq(tapQueue))
      = SumSeq([k \in 1..Len(taps) |-> TapDir(taps[k])])

C20_Witness ==
  /\ variant = "tap" /\ player.moving /\ player.t > 0
  /\ Len(steps) = 2 /\ Len(tapQueue) = 1
  /\ taps = <<"ArrowUp", "ArrowRight", "ArrowUp">>
  /\ Heading = <<1, 0 - 1>>

\* C21: held-key variant: gridI + gridJ is even in every reachable state,
\* and so is the sum of the coordinates of every destination: from tile
\* (0,0) the actor never comes to rest on a tile with an odd sum, such as
\* (1,0).
C21_EvenSum ==
  variant = "held" =>
    /\ (player.gridI + player.gridJ) % 2 = 0
    /\ (player.destI + player.destJ) % 2 = 0
    /\ GridPos # <<1, 0>>

C21_Witness ==
  /\ variant = "held" /\ nsteps = 2 /\ ~player.moving
  /\ GridPos = <<0, 0 - 2>>
  /\ <<player.startI, player.startJ>> = <<0 - 1, 0 - 1>>

====
